---- MODULE Spec2Model ----
(***************************************************************************)
(* Model of the WiFi component (src/WiFi/WiFi.cpp): the identity           *)
(* derivation (deviceName, pop), the event handler, and the init/start     *)
(* coordinator running against the vendor wireless/provisioning stack.     *)
(* A 32-bit unsigned value is a pair <<hi, lo>> of 16-bit halves, so that  *)
(* all 32 bits are kept.                                                   *)
(***************************************************************************)
EXTENDS Integers, Sequences, FiniteSets, TLC

VARIABLES
    pc,            \* position of the application thread
    calls,         \* stack calls made by the application thread, in order
    failed,        \* stack calls that reported failure
    registered,    \* <<event_base, event_id filter>> registrations
    wifiEventGroup,\* bits of the event group
    provisioned,   \* local `bool provisioned` of start()
    returned,      \* start() has returned
    stackProvisioned, \* the stack holds stored credentials
    provRunning,   \* provisioning service running in the stack
    provDone,      \* the stack's provisioning-completion signal
    provOutcome,   \* "none", "success" or "fail"
    handled,       \* per event kind: number of handler invocations
    dropped,       \* per event kind: emitted with no matching registration
    connectRequests, \* esp_wifi_connect() calls
    gotIpAt,       \* phases of the thread at which a got-IP event was handled
    gotIpAfterProvEnd, \* a got-IP event was handled after provisioning ended
    serviceName, popSeed, mac, \* members and the hardware identity buffer
    provArgs,      \* <<pop, service name>> passed to start_provisioning
    payload, logLine,  \* rendered by printQRCode
    nameOut, popOut, nameCalls, popCalls  \* direct calls of deviceName()/pop()

vars == <<pc, calls, failed, registered, wifiEventGroup, provisioned, returned,
          stackProvisioned, provRunning, provDone, provOutcome, handled,
          dropped, connectRequests, gotIpAt, gotIpAfterProvEnd, serviceName,
          popSeed, mac, provArgs, payload, logLine, nameOut, popOut,
          nameCalls, popCalls>>

-----------------------------------------------------------------------------
(* Bounds *)
MaxEvents == 2
MaxCalls == 2

-----------------------------------------------------------------------------
(* Integer helpers *)
RECURSIVE Pow2(_)
Pow2(n) == IF n = 0 THEN 1 ELSE 2 * Pow2(n - 1)

\* bitwise exclusive or of two uint8_t operands
RECURSIVE XorBits(_, _, _)
XorBits(a, b, n) ==
    IF n = 0 THEN 0
    ELSE (((a % 2) + (b % 2)) % 2) + 2 * XorBits(a \div 2, b \div 2, n - 1)

Xor8(a, b) == XorBits(a, b, 8)

HexChars == <<"0","1","2","3","4","5","6","7","8","9","a","b","c","d","e","f">>

\* hex digits of the 32-bit value <<hi, lo>>, most significant first, no padding
RECURSIVE HexDigitsOf(_, _)
HexDigitsOf(hi, lo) ==
    IF hi = 0 /\ lo < 16 THEN HexChars[lo + 1]
    ELSE HexDigitsOf(hi \div 16, ((hi % 16) * 4096) + (lo \div 16))
            \o HexChars[(lo % 16) + 1]

RECURSIVE Zeros(_)
Zeros(n) == IF n <= 0 THEN "" ELSE "0" \o Zeros(n - 1)

\* printf conversion %0<width>x of an unsigned int
FormatHex(value, width) ==
    LET d == HexDigitsOf(value[1], value[2])
    IN  Zeros(width - Len(d)) \o d

\* snprintf(buf, size, ...): at most size-1 characters are stored
Snprintf(size, text) ==
    IF Len(text) <= size - 1 THEN text ELSE SubSeq(text, 1, size - 1)

\* WiFi::deviceName with an off-by-one in the second fold
deviceName_shifted(name, m) ==
    LET byte1 == Xor8(Xor8(m[1], m[2]), m[3])
        byte2 == Xor8(Xor8(m[5], m[6]), m[7])
        uniqueId == Snprintf(5, FormatHex(<<0, byte1>>, 2) \o FormatHex(<<0, byte2>>, 2))
    IN  name \o " " \o uniqueId

\* WiFi::deviceName; m is the 8-byte buffer mac[0..7] as m[1..8]
deviceName(name, m) ==
    LET byte1 == Xor8(Xor8(m[1], m[2]), m[3])
        byte2 == Xor8(Xor8(m[4], m[5]), m[6])
        uniqueId == Snprintf(5, FormatHex(<<0, byte1>>, 2) \o FormatHex(<<0, byte2>>, 2))
    IN  name \o " " \o uniqueId

\* WiFi::pop with the conversion %x instead of %08x
pop_unpadded(seed) == Snprintf(9, FormatHex(seed, 0))

\* WiFi::pop
pop(seed) == Snprintf(9, FormatHex(seed, 8))

\* payload text with the pop field before the name field
PayloadText_swapped(name, p) ==
    "{\"ver\":\"v1\",\"pop\":\"" \o p \o "\",\"name\":\"" \o name
        \o "\",\"transport\":\"ble\"}"

\* WiFi::printQRCode: the payload text
PayloadText(name, p) ==
    "{\"ver\":\"v1\",\"name\":\"" \o name \o "\",\"pop\":\"" \o p
        \o "\",\"transport\":\"ble\"}"

-----------------------------------------------------------------------------
(* Events of the stack *)
ESP_EVENT_ANY_ID == "ESP_EVENT_ANY_ID"

Events ==
    { <<"IP_EVENT", "IP_EVENT_STA_GOT_IP">>,
      <<"IP_EVENT", "IP_EVENT_GOT_IP6">>,
      <<"IP_EVENT", "IP_EVENT_STA_LOST_IP">>,
      <<"WIFI_EVENT", "WIFI_EVENT_STA_START">>,
      <<"WIFI_EVENT", "WIFI_EVENT_STA_CONNECTED">>,
      <<"WIFI_EVENT", "WIFI_EVENT_STA_DISCONNECTED">>,
      <<"WIFI_PROV_EVENT", "WIFI_PROV_CRED_FAIL">>,
      <<"WIFI_PROV_EVENT", "WIFI_PROV_END">> }

GotIp4 == <<"IP_EVENT", "IP_EVENT_STA_GOT_IP">>
GotIp6 == <<"IP_EVENT", "IP_EVENT_GOT_IP6">>
LostIp == <<"IP_EVENT", "IP_EVENT_STA_LOST_IP">>
StaStart == <<"WIFI_EVENT", "WIFI_EVENT_STA_START">>
StaConnected == <<"WIFI_EVENT", "WIFI_EVENT_STA_CONNECTED">>
StaDisconnected == <<"WIFI_EVENT", "WIFI_EVENT_STA_DISCONNECTED">>

\* the event loop invokes a handler registered for the base with the
\* event's id or with ESP_EVENT_ANY_ID
Registered(e) ==
    \/ <<e[1], ESP_EVENT_ANY_ID>> \in registered
    \/ <<e[1], e[2]>> \in registered

-----------------------------------------------------------------------------
(* Event group *)
BIT0 == {0}
BIT1 == {1}

\* EventGroup::setBits
setBits(group, bits) == group \cup bits

\* EventGroup::waitForAll: the caller proceeds when all bits are set
waitForAll(group, bits) == bits \subseteq group

\* the bits start() waits for, shifted to the wrong bit
WaitMask_wrongBit == BIT1

\* the bits start() waits for
WaitMask == BIT0

-----------------------------------------------------------------------------
(* WiFi::handler: the new event group and the number of connect requests *)

\* handler that also takes the association with the AP for connectivity
handler_onAssociation(event_base, event_id, group) ==
    [ group |->
        IF \/ event_base = "IP_EVENT"
              /\ event_id \in {"IP_EVENT_STA_GOT_IP", "IP_EVENT_GOT_IP6"}
           \/ event_base = "WIFI_EVENT" /\ event_id = "WIFI_EVENT_STA_CONNECTED"
        THEN setBits(group, BIT0) ELSE group,
      connects |->
        IF event_base = "WIFI_EVENT"
           /\ event_id \in {"WIFI_EVENT_STA_START", "WIFI_EVENT_STA_DISCONNECTED"}
        THEN 1 ELSE 0 ]

\* handler that clears the bit when the station link drops
handler_clearOnDisconnect(event_base, event_id, group) ==
    [ group |->
        IF event_base = "IP_EVENT"
           /\ event_id \in {"IP_EVENT_STA_GOT_IP", "IP_EVENT_GOT_IP6"}
        THEN setBits(group, BIT0)
        ELSE IF event_base = "WIFI_EVENT" /\ event_id = "WIFI_EVENT_STA_DISCONNECTED"
             THEN group \ BIT0 ELSE group,
      connects |->
        IF event_base = "WIFI_EVENT"
           /\ event_id \in {"WIFI_EVENT_STA_START", "WIFI_EVENT_STA_DISCONNECTED"}
        THEN 1 ELSE 0 ]

\* handler that reconnects on station start only
handler_noReconnect(event_base, event_id, group) ==
    [ group |->
        IF event_base = "IP_EVENT"
           /\ event_id \in {"IP_EVENT_STA_GOT_IP", "IP_EVENT_GOT_IP6"}
        THEN setBits(group, BIT0) ELSE group,
      connects |->
        IF event_base = "WIFI_EVENT" /\ event_id = "WIFI_EVENT_STA_START"
        THEN 1 ELSE 0 ]

\* handler without the IPv6 block
handler_ipv4Only(event_base, event_id, group) ==
    [ group |->
        IF event_base = "IP_EVENT" /\ event_id = "IP_EVENT_STA_GOT_IP"
        THEN setBits(group, BIT0) ELSE group,
      connects |->
        IF event_base = "WIFI_EVENT"
           /\ event_id \in {"WIFI_EVENT_STA_START", "WIFI_EVENT_STA_DISCONNECTED"}
        THEN 1 ELSE 0 ]

\* handler that asks for a connection only while the bit is not set
handler_reconnectIfDown(event_base, event_id, group) ==
    [ group |->
        IF event_base = "IP_EVENT"
           /\ event_id \in {"IP_EVENT_STA_GOT_IP", "IP_EVENT_GOT_IP6"}
        THEN setBits(group, BIT0) ELSE group,
      connects |->
        IF /\ event_base = "WIFI_EVENT"
           /\ event_id \in {"WIFI_EVENT_STA_START", "WIFI_EVENT_STA_DISCONNECTED"}
           /\ ~(BIT0 \subseteq group)
        THEN 1 ELSE 0 ]

\* handler that also asks for a connection when provisioning ends
handler_connectOnProvEnd(event_base, event_id, group) ==
    [ group |->
        IF event_base = "IP_EVENT"
           /\ event_id \in {"IP_EVENT_STA_GOT_IP", "IP_EVENT_GOT_IP6"}
        THEN setBits(group, BIT0) ELSE group,
      connects |->
        IF \/ event_base = "WIFI_EVENT"
              /\ event_id \in {"WIFI_EVENT_STA_START", "WIFI_EVENT_STA_DISCONNECTED"}
           \/ event_base = "WIFI_PROV_EVENT" /\ event_id = "WIFI_PROV_END"
        THEN 1 ELSE 0 ]

handler(event_base, event_id, group) ==
    LET g1 == IF event_base = "IP_EVENT" /\ event_id = "IP_EVENT_STA_GOT_IP"
              THEN setBits(group, BIT0) ELSE group
        g2 == IF event_base = "IP_EVENT" /\ event_id = "IP_EVENT_GOT_IP6"
              THEN setBits(g1, BIT0) ELSE g1
    IN  [ group |-> g2,
          connects |->
            IF event_base = "WIFI_EVENT"
               /\ (event_id = "WIFI_EVENT_STA_START"
                   \/ event_id = "WIFI_EVENT_STA_DISCONNECTED")
            THEN 1 ELSE 0 ]

-----------------------------------------------------------------------------
(* Coordinator helpers *)

\* ESP_ERROR_CHECK: abort unless the call reported success
Checked(ok, next) == IF ok THEN next ELSE "aborted"

\* a call whose result is discarded
Unchecked(ok, next) == next

\* the branch of start() with the condition inverted
startBranch_inverted(isProvisioned) ==
    IF isProvisioned THEN "s_startprov" ELSE "s_setmode"

\* the branch of start() that renders the payload without starting provisioning
startBranch_skipProvisioning(isProvisioned) ==
    IF ~isProvisioned THEN "s_qr" ELSE "s_setmode"

\* the branch of start() on the local `provisioned`
startBranch(isProvisioned) ==
    IF ~isProvisioned THEN "s_startprov" ELSE "s_setmode"

\* continuation after wifi_prov_mgr_wait() that treats a failed session as fatal
provWaitNext_failFatal(outcome) ==
    IF outcome = "fail" THEN "aborted" ELSE "s_deinit"

\* continuation after wifi_prov_mgr_wait() that goes straight to the
\* connectivity wait
provWaitNext_skipRelease(outcome) == "s_wait"

\* continuation after wifi_prov_mgr_wait(), which returns nothing
provWaitNext(outcome) == "s_deinit"

InitPcs == {"i_reg_prov", "i_reg_wifi", "i_reg_ip4", "i_reg_ip6",
            "i_netif_sta", "i_wifi_init", "i_prov_init"}
StartPcs == {"s_startprov", "s_qr", "s_provwait_call", "s_provwait",
             "s_setmode", "s_wifistart", "s_deinit", "s_wait"}

\* phase of the application thread, as seen by the handler context
Phase(p) ==
    CASE p \in {"constructed", "initialized"} \cup InitPcs -> "before_start"
      [] p = "s_provwait" -> "prov_wait"
      [] p = "s_deinit" -> "release"
      [] p = "s_wait" -> "waiting"
      [] p = "running" -> "after"
      [] OTHER -> "other"

Total(f) ==
    LET RECURSIVE Sum(_)
        Sum(S) == IF S = {} THEN 0
                  ELSE LET e == CHOOSE x \in S : TRUE IN f[e] + Sum(S \ {e})
    IN  Sum(Events)

GotIpHandled == handled[GotIp4] + handled[GotIp6]
Called(fn) == \E i \in DOMAIN calls : calls[i] = fn
Alive == pc \notin {"aborted", "destroyed"}

\* the wireless driver is initialised; before that the stack has nothing that
\* emits wireless, IP or provisioning events
StackUp ==
    /\ Alive
    /\ Called("esp_wifi_init")
    /\ "esp_wifi_init" \notin failed

-----------------------------------------------------------------------------
(* Initial states *)
MacMain == <<16, 32, 64, 1, 2, 4, 0, 0>>
\* esp_random() result in the coordinator runs; SeedVals covers the range
SeedsMain == { <<32768, 2748>> }
ByteVals == {0, 10, 255}
PadVals == {0, 171}
SeedVals == { <<0, 0>>, <<0, 2748>>, <<32768, 0>>, <<65535, 65535>>,
              <<4660, 22136>>, <<15, 0>> }
Names == {"Dev", "MyDevice"}

InitCommon ==
    /\ pc = "constructed"
    /\ calls = <<>>
    /\ failed = {}
    /\ registered = {}
    /\ wifiEventGroup = {}
    /\ provisioned = FALSE
    /\ returned = FALSE
    /\ provRunning = FALSE
    /\ provDone = FALSE
    /\ provOutcome = "none"
    /\ handled = [e \in Events |-> 0]
    /\ dropped = [e \in Events |-> 0]
    /\ connectRequests = 0
    /\ gotIpAt = {}
    /\ gotIpAfterProvEnd = FALSE
    /\ provArgs = <<>>
    /\ payload = ""
    /\ logLine = <<>>
    /\ nameOut = ""
    /\ popOut = ""
    /\ nameCalls = 0
    /\ popCalls = 0

\* WiFi::WiFi: serviceName(serviceName), popSeed(esp_random())
Init ==
    /\ InitCommon
    /\ stackProvisioned \in BOOLEAN
    /\ serviceName = "Dev"
    /\ popSeed \in SeedsMain
    /\ mac = MacMain

InitId ==
    /\ InitCommon
    /\ stackProvisioned = FALSE
    /\ serviceName \in Names
    /\ popSeed \in SeedVals
    /\ mac \in { m \in [1..8 -> ByteVals \cup PadVals] :
                   /\ \A i \in 1..6 : m[i] \in ByteVals
                   /\ \A i \in 7..8 : m[i] \in PadVals }

-----------------------------------------------------------------------------
(* Actions of the application thread *)
idVars == <<nameOut, popOut, nameCalls, popCalls>>
identVars == <<serviceName, popSeed, mac>>
stackVars == <<stackProvisioned, provRunning, provDone, provOutcome>>
eventVars == <<handled, dropped, connectRequests, gotIpAt, gotIpAfterProvEnd,
               wifiEventGroup>>
renderVars == <<provArgs, payload, logLine>>

\* one stack call of the thread: fn is logged, a failure is recorded
Call(fn, ok) ==
    /\ calls' = Append(calls, fn)
    /\ failed' = IF ok THEN failed ELSE failed \cup {fn}

\* init(): ESP_ERROR_CHECK(esp_netif_init())
InitNetif ==
    /\ pc = "constructed"
    /\ \E ok \in BOOLEAN :
         /\ Call("esp_netif_init", ok)
         /\ pc' = Checked(ok, "i_reg_prov")
    /\ UNCHANGED <<registered, provisioned, returned, stackVars, eventVars,
                   identVars, renderVars, idVars>>

\* init(): one ESP_ERROR_CHECK(esp_event_handler_register(base, id, ...))
Register(at, base, id, next) ==
    /\ pc = at
    /\ \E ok \in BOOLEAN :
         /\ Call("esp_event_handler_register", ok)
         /\ registered' = IF ok THEN registered \cup {<<base, id>>} ELSE registered
         /\ pc' = Checked(ok, next)
    /\ UNCHANGED <<provisioned, returned, stackVars, eventVars, identVars,
                   renderVars, idVars>>

InitRegisterProv == Register("i_reg_prov", "WIFI_PROV_EVENT", ESP_EVENT_ANY_ID, "i_reg_wifi")
InitRegisterWifi == Register("i_reg_wifi", "WIFI_EVENT", ESP_EVENT_ANY_ID, "i_reg_ip4")
InitRegisterGotIp == Register("i_reg_ip4", "IP_EVENT", "IP_EVENT_STA_GOT_IP", "i_reg_ip6")
InitRegisterGotIp6 == Register("i_reg_ip6", "IP_EVENT", "IP_EVENT_GOT_IP6", "i_netif_sta")

\* init(): esp_netif_create_default_wifi_sta(); the returned pointer is dropped
InitCreateSta ==
    /\ pc = "i_netif_sta"
    /\ \E ok \in BOOLEAN :
         /\ Call("esp_netif_create_default_wifi_sta", ok)
         /\ pc' = Unchecked(ok, "i_wifi_init")
    /\ UNCHANGED <<registered, provisioned, returned, stackVars, eventVars,
                   identVars, renderVars, idVars>>

\* init(): ESP_ERROR_CHECK(esp_wifi_init(&cfg))
InitWifi ==
    /\ pc = "i_wifi_init"
    /\ \E ok \in BOOLEAN :
         /\ Call("esp_wifi_init", ok)
         /\ pc' = Checked(ok, "i_prov_init")
    /\ UNCHANGED <<registered, provisioned, returned, stackVars, eventVars,
                   identVars, renderVars, idVars>>

\* init(): ESP_ERROR_CHECK(wifi_prov_mgr_init(config))
InitProvMgr ==
    /\ pc = "i_prov_init"
    /\ \E ok \in BOOLEAN :
         /\ Call("wifi_prov_mgr_init", ok)
         /\ pc' = Checked(ok, "initialized")
    /\ UNCHANGED <<registered, provisioned, returned, stackVars, eventVars,
                   identVars, renderVars, idVars>>

\* start(): ESP_ERROR_CHECK(wifi_prov_mgr_is_provisioned(&provisioned))
StartQuery ==
    /\ pc = "initialized"
    /\ \E ok \in BOOLEAN :
         /\ Call("wifi_prov_mgr_is_provisioned", ok)
         /\ provisioned' = IF ok THEN stackProvisioned ELSE FALSE
         /\ pc' = Checked(ok, startBranch(provisioned'))
    /\ UNCHANGED <<registered, returned, stackVars, eventVars, identVars,
                   renderVars, idVars>>

\* start-provisioning step that draws a new seed after deriving its arguments
StartProvisioning_reseeds ==
    /\ pc = "s_startprov"
    /\ \E ok \in BOOLEAN :
         /\ Call("wifi_prov_mgr_start_provisioning", ok)
         /\ provArgs' = <<pop(popSeed), deviceName(serviceName, mac)>>
         /\ provRunning' = ok
         /\ pc' = Checked(ok, "s_qr")
    /\ popSeed' = <<popSeed[2], popSeed[1]>>
    /\ UNCHANGED <<registered, provisioned, returned, stackProvisioned, provDone,
                   provOutcome, eventVars, serviceName, mac, payload, logLine,
                   idVars>>

\* start(): ESP_ERROR_CHECK(wifi_prov_mgr_start_provisioning(security, pop, name, key))
StartProvisioning ==
    /\ pc = "s_startprov"
    /\ \E ok \in BOOLEAN :
         /\ Call("wifi_prov_mgr_start_provisioning", ok)
         /\ provArgs' = <<pop(popSeed), deviceName(serviceName, mac)>>
         /\ provRunning' = ok
         /\ pc' = Checked(ok, "s_qr")
    /\ UNCHANGED <<registered, provisioned, returned, stackProvisioned, provDone,
                   provOutcome, eventVars, identVars, payload, logLine, idVars>>

\* start(): printQRCode()
PrintQRCode ==
    /\ pc = "s_qr"
    /\ Call("qrcode.print", TRUE)
    /\ payload' = PayloadText(deviceName(serviceName, mac), pop(popSeed))
    /\ logLine' = <<deviceName(serviceName, mac), pop(popSeed)>>
    /\ pc' = "s_provwait_call"
    /\ UNCHANGED <<registered, provisioned, returned, stackVars, eventVars,
                   identVars, provArgs, idVars>>

\* start(): wifi_prov_mgr_wait() is entered
ProvWaitEnter ==
    /\ pc = "s_provwait_call"
    /\ Call("wifi_prov_mgr_wait", TRUE)
    /\ pc' = "s_provwait"
    /\ UNCHANGED <<registered, provisioned, returned, stackVars, eventVars,
                   identVars, renderVars, idVars>>

\* start(): wifi_prov_mgr_wait() returns once the stack signals completion
ProvWaitReturn ==
    /\ pc = "s_provwait"
    /\ provDone
    /\ pc' = provWaitNext(provOutcome)
    /\ UNCHANGED <<calls, failed, registered, provisioned, returned, stackVars,
                   eventVars, identVars, renderVars, idVars>>

\* start(): ESP_ERROR_CHECK(esp_wifi_set_mode(WIFI_MODE_STA))
StartSetMode ==
    /\ pc = "s_setmode"
    /\ \E ok \in BOOLEAN :
         /\ Call("esp_wifi_set_mode", ok)
         /\ pc' = Checked(ok, "s_wifistart")
    /\ UNCHANGED <<registered, provisioned, returned, stackVars, eventVars,
                   identVars, renderVars, idVars>>

\* start(): ESP_ERROR_CHECK(esp_wifi_start())
StartRadio ==
    /\ pc = "s_wifistart"
    /\ \E ok \in BOOLEAN :
         /\ Call("esp_wifi_start", ok)
         /\ pc' = Checked(ok, "s_deinit")
    /\ UNCHANGED <<registered, provisioned, returned, stackVars, eventVars,
                   identVars, renderVars, idVars>>

\* start(): wifi_prov_mgr_deinit()
StartRelease ==
    /\ pc = "s_deinit"
    /\ Call("wifi_prov_mgr_deinit", TRUE)
    /\ pc' = "s_wait"
    /\ UNCHANGED <<registered, provisioned, returned, stackVars, eventVars,
                   identVars, renderVars, idVars>>

\* start(): wifiEventGroup.waitForAll(BIT0) returns, then start() returns
StartWaitReturn ==
    /\ pc = "s_wait"
    /\ waitForAll(wifiEventGroup, WaitMask)
    /\ pc' = "running"
    /\ returned' = TRUE
    /\ UNCHANGED <<calls, failed, registered, provisioned, stackVars, eventVars,
                   identVars, renderVars, idVars>>

\* teardown with the network-interface stack deinitialised first
TeardownCalls_reversed == <<"esp_netif_deinit", "esp_wifi_deinit">>

\* ~WiFi(): the stack calls of the destructor
TeardownCalls == <<"esp_wifi_deinit", "esp_netif_deinit">>

\* ~WiFi(): esp_wifi_deinit(); esp_netif_deinit(); the process ends with it
Destroy ==
    /\ pc \in {"constructed", "initialized", "running"}
    /\ calls' = calls \o TeardownCalls
    /\ pc' = "destroyed"
    /\ UNCHANGED <<failed, registered, provisioned, returned, stackVars,
                   eventVars, identVars, renderVars, idVars>>

-----------------------------------------------------------------------------
(* Actions of the stack *)

\* the stack emits event e; the event loop runs eventHandler -> handler if a
\* registration matches
Emit(e) ==
    /\ StackUp
    /\ Total(handled) + Total(dropped) < MaxEvents
    /\ IF Registered(e)
       THEN LET r == handler(e[1], e[2], wifiEventGroup)
            IN  /\ handled' = [handled EXCEPT ![e] = @ + 1]
                /\ wifiEventGroup' = r.group
                /\ connectRequests' = connectRequests + r.connects
                /\ gotIpAt' = IF e \in {GotIp4, GotIp6}
                              THEN gotIpAt \cup {Phase(pc)} ELSE gotIpAt
                /\ gotIpAfterProvEnd' =
                       (gotIpAfterProvEnd \/ (provDone /\ e \in {GotIp4, GotIp6}))
                /\ UNCHANGED dropped
       ELSE /\ dropped' = [dropped EXCEPT ![e] = @ + 1]
            /\ UNCHANGED <<handled, wifiEventGroup, connectRequests, gotIpAt,
                           gotIpAfterProvEnd>>
    /\ UNCHANGED <<pc, calls, failed, registered, provisioned, returned,
                   stackVars, identVars, renderVars, idVars>>

StackEvent == \E e \in Events : Emit(e)

\* the provisioning session ends, with either outcome
ProvEnd ==
    /\ Alive
    /\ provRunning
    /\ \E outcome \in {"success", "fail"} :
         /\ provOutcome' = outcome
         /\ stackProvisioned' = (stackProvisioned \/ outcome = "success")
    /\ provRunning' = FALSE
    /\ provDone' = TRUE
    /\ UNCHANGED <<pc, calls, failed, registered, provisioned, returned,
                   eventVars, identVars, renderVars, idVars>>

-----------------------------------------------------------------------------
(* Specifications *)
ThreadInit ==
    \/ InitNetif
    \/ InitRegisterProv
    \/ InitRegisterWifi
    \/ InitRegisterGotIp
    \/ InitRegisterGotIp6
    \/ InitCreateSta
    \/ InitWifi
    \/ InitProvMgr

ThreadStart ==
    \/ StartQuery
    \/ StartProvisioning
    \/ PrintQRCode
    \/ ProvWaitEnter
    \/ ProvWaitReturn
    \/ StartSetMode
    \/ StartRadio
    \/ StartRelease
    \/ StartWaitReturn

Next ==
    \/ InitNetif
    \/ InitRegisterProv
    \/ InitRegisterWifi
    \/ InitRegisterGotIp
    \/ InitRegisterGotIp6
    \/ InitCreateSta
    \/ InitWifi
    \/ InitProvMgr
    \/ StartQuery
    \/ StartProvisioning
    \/ PrintQRCode
    \/ ProvWaitEnter
    \/ ProvWaitReturn
    \/ StartSetMode
    \/ StartRadio
    \/ StartRelease
    \/ StartWaitReturn
    \/ Destroy
    \/ StackEvent
    \/ ProvEnd

Spec == Init /\ [][Next]_vars

\* once inside start(), the thread keeps running: every step of start() that
\* stays enabled is eventually taken
FairSpec == Spec /\ WF_vars(ThreadStart)

\* direct calls of the identity derivation
CallDeviceName ==
    /\ nameCalls < MaxCalls
    /\ nameOut' = deviceName(serviceName, mac)
    /\ nameCalls' = nameCalls + 1
    /\ UNCHANGED <<pc, calls, failed, registered, provisioned, returned,
                   stackVars, eventVars, identVars, renderVars, popOut, popCalls>>

CallPop ==
    /\ popCalls < MaxCalls
    /\ popOut' = pop(popSeed)
    /\ popCalls' = popCalls + 1
    /\ UNCHANGED <<pc, calls, failed, registered, provisioned, returned,
                   stackVars, eventVars, identVars, renderVars, nameOut, nameCalls>>

\* a direct call of printQRCode()
CallPrintQRCode ==
    /\ payload' = PayloadText(deviceName(serviceName, mac), pop(popSeed))
    /\ logLine' = <<deviceName(serviceName, mac), pop(popSeed)>>
    /\ UNCHANGED <<pc, calls, failed, registered, provisioned, returned,
                   stackVars, eventVars, identVars, provArgs, idVars>>

NextId == CallDeviceName \/ CallPop \/ CallPrintQRCode

SpecId == InitId /\ [][NextId]_vars

-----------------------------------------------------------------------------
(* Properties *)

\* C1: start() returns only after a got-IPv4 or got-IPv6 event was handled
\* and the connectivity bit is set; while no such event has been handled the
\* thread stays blocked in the connectivity wait.
C1_ReturnOnlyAfterGotIp ==
    /\ [](returned => GotIpHandled >= 1)
    /\ [][(pc = "s_wait" /\ pc' # "s_wait")
            => (GotIpHandled >= 1 /\ BIT0 \subseteq wifiEventGroup /\ returned')]_vars
    /\ [][(pc = "s_wait" /\ GotIpHandled = 0) => (pc' = "s_wait" /\ ~returned')]_vars

W1_ReturnedAfterGotIp ==
    /\ returned
    /\ pc = "running"
    /\ GotIpHandled = 1

\* C2: in the not-provisioned path, once provisioning has completed and a
\* got-IP event has been handled after that, start() eventually returns.
C2_ProvisioningPathReturns ==
    (~provisioned /\ provDone /\ gotIpAfterProvEnd) ~> returned

W2_ProvisioningPathReturned ==
    /\ returned
    /\ ~provisioned
    /\ provDone
    /\ gotIpAfterProvEnd
    /\ Called("wifi_prov_mgr_start_provisioning")

RadioStarted ==
    /\ provisioned
    /\ Called("esp_wifi_start")
    /\ "esp_wifi_start" \notin failed

CallsInOrder(a, b) ==
    \E i, j \in DOMAIN calls : i < j /\ calls[i] = a /\ calls[j] = b

\* C3: in the provisioned path the thread sets station mode, then starts the
\* radio, never starts provisioning, never renders the payload and never
\* waits for provisioning; with the radio started, once a got-IP event has
\* been handled start() eventually returns.
C3_ProvisionedPath ==
    /\ [](provisioned =>
            /\ ~Called("wifi_prov_mgr_start_provisioning")
            /\ ~Called("qrcode.print")
            /\ ~Called("wifi_prov_mgr_wait")
            /\ payload = ""
            /\ pc \notin {"s_startprov", "s_qr", "s_provwait_call", "s_provwait"})
    /\ [](RadioStarted => CallsInOrder("esp_wifi_set_mode", "esp_wifi_start"))
    /\ []((provisioned /\ pc \in {"s_deinit", "s_wait", "running"}) => RadioStarted)
    /\ ((RadioStarted /\ GotIpHandled >= 1) ~> returned)

W3_ProvisionedPathReturned ==
    /\ returned
    /\ RadioStarted
    /\ GotIpHandled >= 1

\* C4: the connectivity bit is unset until a got-IP event is handled, is set
\* by every got-IP event, and once set no step changes the event group.
C4_FlagMonotonic ==
    /\ [](GotIpHandled = 0 => wifiEventGroup = {})
    /\ [][GotIpHandled' > GotIpHandled => BIT0 \subseteq wifiEventGroup']_vars
    /\ [][BIT0 \subseteq wifiEventGroup => wifiEventGroup' = wifiEventGroup]_vars

W4_FlagKeptAfterLaterEvents ==
    /\ returned
    /\ BIT0 \subseteq wifiEventGroup
    /\ GotIpHandled >= 1
    /\ handled[StaDisconnected] >= 1

\* C5: the number of connect requests equals the number of station-started
\* plus station-disconnected events handled.
C5_OneConnectPerLinkEvent ==
    connectRequests = handled[StaStart] + handled[StaDisconnected]

W5_ConnectsCounted ==
    /\ connectRequests = 1
    /\ handled[StaDisconnected] = 1
    /\ Total(handled) = 2

\* C6: a got-IP event handled at any earlier or later point makes the
\* connectivity wait return, and the wait is left only with the bit set.
C6_NoMissedWakeup ==
    /\ ((pc = "s_wait" /\ GotIpHandled >= 1) ~> returned)
    /\ [][(pc = "s_wait" /\ ~(BIT0 \subseteq wifiEventGroup)) => pc' = "s_wait"]_vars

W6_EarlyGotIpWakesWait ==
    /\ returned
    /\ gotIpAt = {"before_start"}

\* C7: after wifi_prov_mgr_wait() ends the thread releases the provisioning
\* manager and then waits for connectivity, whatever the outcome; a failed
\* session raises no error, and with no got-IP event start() does not return.
AfterProvWait == {"s_deinit", "s_wait", "running", "destroyed"}

C7_OutcomeNotDistinguished ==
    /\ [][(pc = "s_provwait" /\ pc' # pc) => (pc' = "s_deinit" /\ calls' = calls)]_vars
    /\ [][(pc = "s_deinit" /\ pc' # pc)
            => (pc' = "s_wait" /\ calls' = Append(calls, "wifi_prov_mgr_deinit"))]_vars
    /\ [](provOutcome = "fail" => pc \in {"s_qr", "s_provwait_call", "s_provwait"} \cup AfterProvWait)
    /\ []((provOutcome = "fail" /\ GotIpHandled = 0) => ~returned)

W7_FailedSessionWaits ==
    /\ provOutcome = "fail"
    /\ pc = "s_wait"
    /\ GotIpHandled = 0

InitCalls == {"esp_netif_init", "esp_event_handler_register",
              "esp_netif_create_default_wifi_sta", "esp_wifi_init",
              "wifi_prov_mgr_init"}

Bit(a, i) == (a \div Pow2(i)) % 2
DiffBit(a, b, i) == IF Bit(a, i) = Bit(b, i) THEN 0 ELSE Pow2(i)
ExpXor(a, b) ==
    DiffBit(a, b, 0) + DiffBit(a, b, 1) + DiffBit(a, b, 2) + DiffBit(a, b, 3)
    + DiffBit(a, b, 4) + DiffBit(a, b, 5) + DiffBit(a, b, 6) + DiffBit(a, b, 7)
Hex2(b) == HexChars[(b \div 16) + 1] \o HexChars[(b % 16) + 1]
Hex4(w) == Hex2(w \div 256) \o Hex2(w % 256)
LowerHex == {HexChars[i] : i \in 1..16}

\* C9: deviceName() is ServiceIdentity, one space, the two lowercase hex
\* digits of id[0]^id[1]^id[2] and the two of id[3]^id[4]^id[5], whatever
\* PopSeed, bytes 6 and 7 and the number of earlier calls.
C9_DeviceNameFormat ==
    nameCalls > 0 =>
        /\ nameOut = serviceName \o " "
                       \o Hex2(ExpXor(ExpXor(mac[1], mac[2]), mac[3]))
                       \o Hex2(ExpXor(ExpXor(mac[4], mac[5]), mac[6]))
        /\ Len(nameOut) = Len(serviceName) + 5

W9_NameWithPaddedSuffix ==
    /\ nameCalls >= 2
    /\ popCalls >= 1
    /\ mac[1] = 10 /\ mac[2] = 0 /\ mac[3] = 0
    /\ mac[4] = 255 /\ mac[5] = 10 /\ mac[6] = 255
    /\ mac[7] = 171
    /\ nameOut = serviceName \o " 0a0a"

\* C10: pop() is the 8 lowercase hex digits of PopSeed, zero padded, on
\* every call.
C10_PopFormat ==
    popCalls > 0 =>
        /\ popOut = Hex4(popSeed[1]) \o Hex4(popSeed[2])
        /\ Len(popOut) = 8
        /\ \A i \in 1..8 : SubSeq(popOut, i, i) \in LowerHex

W10_PopWithLeadingZeros ==
    /\ popCalls >= 2
    /\ popSeed = <<0, 2748>>
    /\ popOut = "00000abc"

\* the part of text t from position from on, of length len
Slice(t, from, len) == SubSeq(t, from, from + len - 1)

\* C11: the payload is {"ver":"v1","name":"N","pop":"P","transport":"ble"}
\* for the device name N and the proof of possession P: the fixed parts and
\* the two fields are read back at their positions.
C11_PayloadSchema ==
    payload # "" =>
        LET N == deviceName(serviceName, mac)
            P == pop(popSeed)
        IN  /\ Len(payload) = 20 + Len(N) + 9 + Len(P) + 20
            /\ Slice(payload, 1, 20) = "{\"ver\":\"v1\",\"name\":\""
            /\ Slice(payload, 21, Len(N)) = N
            /\ Slice(payload, 21 + Len(N), 9) = "\",\"pop\":\""
            /\ Slice(payload, 30 + Len(N), Len(P)) = P
            /\ Slice(payload, 30 + Len(N) + Len(P), 20) = "\",\"transport\":\"ble\"}"

W11_PayloadRendered ==
    /\ serviceName = "Dev"
    /\ popSeed = <<0, 2748>>
    /\ mac[1] = 10 /\ mac[2] = 0 /\ mac[3] = 0
    /\ mac[4] = 255 /\ mac[5] = 10 /\ mac[6] = 255
    /\ payload = "{\"ver\":\"v1\",\"name\":\"Dev 0a0a\",\"pop\":\"00000abc\",\"transport\":\"ble\"}"

Count(fn) == Cardinality({i \in DOMAIN calls : calls[i] = fn})
IndexOf(fn) == CHOOSE i \in DOMAIN calls : calls[i] = fn

\* C12: in both branches wifi_prov_mgr_deinit() is called exactly once, right
\* after wifi_prov_mgr_wait() has returned or right after esp_wifi_start(),
\* and before the thread starts to wait for the connectivity bit.
C12_ReleaseOnceBeforeWait ==
    /\ Count("wifi_prov_mgr_deinit") <= 1
    /\ (pc \in {"s_wait", "running"} \/ returned) <=> Called("wifi_prov_mgr_deinit")
    /\ Called("wifi_prov_mgr_deinit") =>
         LET i == IndexOf("wifi_prov_mgr_deinit")
         IN  /\ i > 1
             /\ calls[i - 1] = IF provisioned THEN "esp_wifi_start"
                               ELSE "wifi_prov_mgr_wait"
             /\ provisioned => "esp_wifi_start" \notin failed
             /\ ~provisioned => provDone

W12_ReleasedInProvisioningBranch ==
    /\ pc = "s_wait"
    /\ ~provisioned
    /\ Count("wifi_prov_mgr_deinit") = 1

\* C13: in the not-provisioned branch the thread calls, each once and in
\* this order, the is-provisioned query, start-provisioning with pop() as the
\* secret and deviceName() as the name, the payload rendering and the wait
\* for completion; the payload is rendered before that wait is entered and not
\* again, and the thread calls neither set-mode nor radio-start.
ProvisioningBranchCalls ==
    <<"wifi_prov_mgr_is_provisioned", "wifi_prov_mgr_start_provisioning",
      "qrcode.print", "wifi_prov_mgr_wait", "wifi_prov_mgr_deinit">>

InProvisioningBranch ==
    /\ Called("wifi_prov_mgr_is_provisioned")
    /\ "wifi_prov_mgr_is_provisioned" \notin failed
    /\ ~provisioned

\* the calls made since start() was entered
StartCalls ==
    IF Called("wifi_prov_mgr_is_provisioned")
    THEN SubSeq(calls, IndexOf("wifi_prov_mgr_is_provisioned"), Len(calls))
    ELSE <<>>

C14_OrderIndependent ==
    /\ wifiEventGroup = IF GotIpHandled > 0 THEN BIT0 ELSE {}
    /\ connectRequests = handled[StaStart] + handled[StaDisconnected]
    /\ \A e1, e2 \in Events :
         LET a == handler(e1[1], e1[2], wifiEventGroup)
             b == handler(e2[1], e2[2], a.group)
             c == handler(e2[1], e2[2], wifiEventGroup)
             d == handler(e1[1], e1[2], c.group)
         IN  /\ b.group = d.group
             /\ a.connects + b.connects = c.connects + d.connects
             /\ a.connects = d.connects

W14_MixedEventsHandled ==
    /\ handled[GotIp6] = 1
    /\ handled[StaDisconnected] = 1
    /\ connectRequests = 1
    /\ wifiEventGroup = BIT0

\* C15: once init() has completed, every event the stack emits is passed to
\* the handler.
C15_AllEventsReachHandler ==
    \A e \in Events : dropped[e] = 0

ProvEndEvent == <<"WIFI_PROV_EVENT", "WIFI_PROV_END">>
LogOnlyEvents == {e \in Events : e[1] = "WIFI_PROV_EVENT"} \cup {StaConnected}

\* C16: handling a provisioning event or the station-connected event changes
\* neither the event group nor the number of connect requests, and the event
\* group changes only in a step that handles a got-IP event.
C16_LogOnlyEventsChangeNothing ==
    /\ [][(\E e \in LogOnlyEvents : handled'[e] > handled[e])
            => (wifiEventGroup' = wifiEventGroup
                /\ connectRequests' = connectRequests)]_vars
    /\ [][wifiEventGroup' # wifiEventGroup => GotIpHandled' > GotIpHandled]_vars

W16_LogOnlyEventsHandled ==
    /\ handled[StaConnected] = 1
    /\ handled[ProvEndEvent] = 1
    /\ wifiEventGroup = {}
    /\ connectRequests = 0

InitRegistrations ==
    { <<"WIFI_PROV_EVENT", ESP_EVENT_ANY_ID>>,
      <<"WIFI_EVENT", ESP_EVENT_ANY_ID>>,
      <<"IP_EVENT", "IP_EVENT_STA_GOT_IP">>,
      <<"IP_EVENT", "IP_EVENT_GOT_IP6">> }

\* C17: the destructor calls esp_wifi_deinit() and then esp_netif_deinit()
\* and leaves the registrations as they are, so that after the destruction of
\* an initialised instance the registrations are those init() made.
C17_TeardownKeepsRegistrations ==
    /\ [][(pc # "destroyed" /\ pc' = "destroyed")
            => (/\ calls' = calls \o <<"esp_wifi_deinit", "esp_netif_deinit">>
                /\ registered' = registered)]_vars
    /\ [](pc = "initialized" => registered = InitRegistrations)
    /\ []((pc = "destroyed" /\ Called("wifi_prov_mgr_init"))
            => registered = InitRegistrations)

W17_DestroyedAfterStart ==
    /\ pc = "destroyed"
    /\ returned
    /\ registered = InitRegistrations
    /\ calls[Len(calls)] = "esp_netif_deinit"

\* C18: the seed, the hardware identity and the service name never change,
\* and once the payload is rendered its name and pop fields and the two
\* values of the log line are the name and the pop passed to
\* start-provisioning.
C18_ShownCredentialsAreAccepted ==
    /\ [][popSeed' = popSeed /\ mac' = mac /\ serviceName' = serviceName]_vars
    /\ [](payload # "" =>
            /\ provArgs # <<>>
            /\ Len(payload) = 49 + Len(provArgs[2]) + Len(provArgs[1])
            /\ Slice(payload, 21, Len(provArgs[2])) = provArgs[2]
            /\ Slice(payload, 30 + Len(provArgs[2]), Len(provArgs[1])) = provArgs[1]
            /\ logLine = <<provArgs[2], provArgs[1]>>)

W18_PayloadShownForSession ==
    /\ pc = "s_provwait"
    /\ provRunning
    /\ payload # ""
    /\ logLine = <<provArgs[2], provArgs[1]>>

====
